---- MODULE Spec2Model ----
(***************************************************************************)
(* State-machine model of the JSON Schema inference engine of              *)
(* generate-schema.js: inferSchema (recursive descent with the visited     *)
(* WeakSet) and unifySchemas (merge of the fragments of an array's items), *)
(* with its caller generateSchema (read and parse failures of the sample   *)
(* file) and the use main makes of site-assets.json afterwards.            *)
(*                                                                         *)
(* A JavaScript value is a tree of array / object literals with primitive  *)
(* leaves.  The identity of an array or object is the position (path of    *)
(* child indices from the root) of its literal; a leaf Ref(p) is one more  *)
(* reference to the object whose literal sits at path p, which is how      *)
(* shared and self-referential in-memory graphs are written.               *)
(***************************************************************************)
EXTENDS Integers, Sequences, FiniteSets, TLC

\* ---------------------------------------------------------------- bounds
\* Largest number of elements of an array / properties of an object.
MaxLen == 2
\* Nesting levels of array / object literals in an input value.
MaxDepth == 2
\* Depth of the JavaScript call stack (frames of inferSchema on arrays and
\* objects) beyond which the engine throws RangeError.  It is deeper than
\* every recursion that ends by itself on the values of the bounds above
\* (an array is entered once more for every object of its cycle).
MaxStack == 6
\* Largest number of elements of a top-level array of primitive values.
MaxPrimLen == 3

\* ------------------------------------------------------- JavaScript values
Null == [kind |-> "null"]
Undefined == [kind |-> "undefined"]
Bool(b) == [kind |-> "boolean", b |-> b]
\* A number is held in tenths: Num(50) is 5, Num(55) is 5.5.
Num(t) == [kind |-> "number", tenths |-> t]
\* A string is the sequence of its characters.
Str(cs) == [kind |-> "string", chars |-> cs]
Ref(p) == [kind |-> "ref", path |-> p]
ArrayNode(es) == [kind |-> "array", elems |-> es]
ObjectNode(en) == [kind |-> "object", entries |-> en]

Keys == {"a", "b"}
\* Keys of the objects of primitive values a top-level call is also made on:
\* "__proto__" is a legal key of a JSON document, and JSON.parse makes it an
\* own property.
ProtoKeys == {"a", "__proto__"}

SHi == <<"h", "i">>
SUri == <<"x", ":", "y">>
SMailto == <<"m", ":", "a", "@", "b", ".", "c">>
SHttpNoHost == <<"h", "t", "t", "p", ":">>
SEmail == <<"a", "@", "b", ".", "c">>
SDate == <<"2", "0", "2", "4", "-", "0", "1", "-", "1", "5">>
SBadDate == <<"2", "0", "2", "4", "-", "1", "3", "-", "1", "5">>
SDateTime == SDate \o <<"T", "1", "0", ":", "0", "0", ":", "0", "0", "Z">>
SBadDateTime == SDate \o <<"T", "1", "0", ":", "6", "1", ":", "0", "0">>
SDateTimeMail == SDate \o <<"T", "1", "0", ":", "0", "0", ":", "0", "0", "@", ".">>

SampleStrings ==
    {SHi, SUri, SMailto, SHttpNoHost, SEmail, SDate, SBadDate, SDateTime,
     SBadDateTime, SDateTimeMail}

\* Primitive values a top-level call is made on.
RootPrims ==
    {Null, Undefined, Bool(TRUE), Bool(FALSE), Num(50), Num(55), Num(0)}
        \cup {Str(s) : s \in SampleStrings}

\* Primitive values that occur inside arrays and objects.
ChildPrims == {Num(50), Num(55), Str(<<"x">>)}

IsComposite(v) == v.kind \in {"array", "object"}

SeqsUpTo(S, n) == UNION {[1..m -> S] : m \in 0..n}

\* Paths of the array and object literals of a value that have children:
\* the root and its descendants above the last nesting level.
CompositePaths == SeqsUpTo(1..MaxLen, MaxDepth - 1)

\* Paths of the literals a Ref may point to: the root and its first
\* descendants.
RefPaths == SeqsUpTo({1}, MaxDepth - 1)

Leaves == ChildPrims \cup {Ref(p) : p \in RefPaths}

\* Property lists of an object literal: distinct keys, in insertion order.
EntrySeqs(K, S) ==
    {s \in SeqsUpTo([key : K, val : S], MaxLen) :
        \A i, j \in DOMAIN s : i # j => s[i].key # s[j].key}

RECURSIVE Values(_)
Values(d) ==
    IF d = 0 THEN Leaves
    ELSE LET sub == Values(d - 1)
         IN  sub \cup {ArrayNode(s) : s \in SeqsUpTo(sub, MaxLen)}
                 \cup {ObjectNode(e) : e \in EntrySeqs(Keys, sub)}

NumChildren(v) ==
    IF v.kind = "array" THEN Len(v.elems)
    ELSE IF v.kind = "object" THEN Len(v.entries) ELSE 0

Child(v, i) == IF v.kind = "array" THEN v.elems[i] ELSE v.entries[i].val

\* The sub-value at path p of v.
RECURSIVE At(_, _)
At(v, p) == IF p = <<>> THEN v ELSE At(Child(v, Head(p)), Tail(p))

\* p is the path of an array or object literal of v.
RECURSIVE IsCompositeAt(_, _)
IsCompositeAt(v, p) ==
    /\ IsComposite(v)
    /\ \/ p = <<>>
       \/ /\ Head(p) \in 1..NumChildren(v)
          /\ IsCompositeAt(Child(v, Head(p)), Tail(p))

\* Every Ref of sub points to an array or object literal of v.
RECURSIVE RefsOK(_, _)
RefsOK(v, sub) ==
    IF sub.kind = "ref" THEN IsCompositeAt(v, sub.path)
    ELSE \A i \in 1..NumChildren(sub) : RefsOK(v, Child(sub, i))

\* The values inferSchema is called on.
Inputs ==
    RootPrims \cup {v \in Values(MaxDepth) : IsComposite(v) /\ RefsOK(v, v)}
        \cup {ArrayNode(s) : s \in [1..MaxPrimLen -> ChildPrims]}
        \cup {ObjectNode(e) : e \in EntrySeqs(ProtoKeys, ChildPrims)}

\* ------------------------------------------------------------------ state
VARIABLES
    root,        \* the value of the top-level call
    pc,          \* "idle", "call", "ret", "exit", "done", "overflow", "exited"
    stack,       \* frames of the calls on arrays and objects in progress
    visited,     \* the WeakSet: identities of the objects in progress
    ret,         \* the fragment the last finished call returned
    result,      \* the fragment the top-level call returned
    branch,      \* the branch of the code the last step executed
    unifyCalls,  \* calls of unifySchemas made by the top-level call
    unifyArgs,   \* the last call of unifySchemas: its argument before and
                 \* after the call, and what it returned
    prev,        \* the value and the fragment of the top-level call before
    proc         \* the process: the sample file, what was logged, the exit
                 \* status, and what was done with site-assets.json

vars ==
    <<root, pc, stack, visited, ret, result, branch, unifyCalls, unifyArgs,
      prev, proc>>


\* --------------------------------------------------------------- fragments
\* {} : the fragment with no field.
EmptyFragment == [f \in {} |-> f]
\* No fragment (nothing returned yet).
NoFragment == [undefined |-> TRUE]
\* A properties map is the sequence of its [key, val] pairs in insertion
\* order.
EmptyProps == <<>>

PropKeys(props) == [i \in DOMAIN props |-> props[i].key]

HasKey(props, k) == \E i \in DOMAIN props : props[i].key = k

\* props[k] = v : overwrite in place, or append a new key.  An assignment
\* to "__proto__" runs the setter of Object.prototype, which makes the
\* fragment v the prototype of props and creates no property.
PropSet(props, k, v) ==
    IF k = "__proto__" THEN props
    ELSE IF HasKey(props, k)
    THEN [i \in DOMAIN props |->
            IF props[i].key = k THEN [key |-> k, val |-> v] ELSE props[i]]
    ELSE Append(props, [key |-> k, val |-> v])

PropGet(props, k) == props[CHOOSE i \in DOMAIN props : props[i].key = k].val

\* Mutant: a key the target already has keeps its first sub-schema.
RECURSIVE ObjectAssignKeepFirst(_, _)
ObjectAssignKeepFirst(target, source) ==
    IF source = <<>> THEN target
    ELSE ObjectAssignKeepFirst(
             IF HasKey(target, Head(source).key) THEN target
             ELSE Append(target, Head(source)),
             Tail(source))

\* Object.assign(target, source)
RECURSIVE ObjectAssign(_, _)
ObjectAssign(target, source) ==
    IF source = <<>> THEN target
    ELSE ObjectAssign(PropSet(target, Head(source).key, Head(source).val),
                      Tail(source))

\* Mutant: an array push instead of a Set add.
SetAddNoDedup(s, x) == Append(s, x)

\* Set.prototype.add on a Set held in insertion order.
SetAdd(s, x) == IF \E i \in DOMAIN s : s[i] = x THEN s ELSE Append(s, x)

RECURSIVE SetAddAll(_, _)
SetAddAll(s, xs) ==
    IF xs = <<>> THEN s ELSE SetAddAll(SetAdd(s, Head(xs)), Tail(xs))

\* Mutant: "integer" counts as "number" when types are compared.
TypeOfNumeric(s) ==
    IF "type" \in DOMAIN s
    THEN IF s.type = "integer" THEN "number" ELSE s.type
    ELSE "undefined"

\* s.type (undefined when the fragment has no type field)
TypeOf(s) == IF "type" \in DOMAIN s THEN s.type ELSE "undefined"

\* Mutant: the type tags are not collected into a Set.
DistinctTypesNoSet(schemas) == [i \in DOMAIN schemas |-> TypeOf(schemas[i])]

\* [...new Set(schemas.map(s => s.type))]
RECURSIVE DistinctTypes(_)
DistinctTypes(schemas) ==
    IF schemas = <<>> THEN <<>>
    ELSE SetAddAll(<<TypeOf(Head(schemas))>>, DistinctTypes(Tail(schemas)))

\* const baseSchema = { ...schemas[0] }; delete baseSchema.type;
BaseSchema(schemas) ==
    LET first == schemas[1]
    IN  [f \in DOMAIN first \ {"type"} |-> first[f]]

\* The forEach of unifySchemas: Object.assign of each fragment's properties.
RECURSIVE MergedProperties(_, _)
MergedProperties(acc, schemas) ==
    IF schemas = <<>> THEN acc
    ELSE LET s == Head(schemas)
         IN  MergedProperties(
                 IF "properties" \in DOMAIN s
                 THEN ObjectAssign(acc, s.properties) ELSE acc,
                 Tail(schemas))

\* The forEach of unifySchemas: allRequired.add of each required key.
RECURSIVE AllRequired(_, _)
AllRequired(acc, schemas) ==
    IF schemas = <<>> THEN acc
    ELSE LET s == Head(schemas)
         IN  AllRequired(
                 IF "required" \in DOMAIN s
                 THEN SetAddAll(acc, s.required) ELSE acc,
                 Tail(schemas))

MergeObjects(schemas) ==
    [type |-> "object",
     properties |-> MergedProperties(EmptyProps, schemas),
     required |-> AllRequired(<<>>, schemas)]

\* Mutant: delete baseSchema.type is applied to schemas[0] itself.
ArgsAfterUnifyDeleteInPlace(schemas) ==
    IF Len(schemas) # 0 /\ Len(DistinctTypes(schemas)) = 1
           /\ DistinctTypes(schemas)[1] # "object"
    THEN [schemas EXCEPT ![1] = BaseSchema(schemas)]
    ELSE schemas

\* The array unifySchemas was called with, as the call leaves it: baseSchema
\* is a copy ({ ...schemas[0] }), mergedProperties and allRequired are new,
\* and nothing is assigned to or deleted from an element of schemas.
ArgsAfterUnify(schemas) == schemas

UnifySchemas(schemas) ==
    IF Len(schemas) = 0 THEN EmptyFragment
    ELSE LET types == DistinctTypes(schemas)
         IN  IF Len(types) = 1
             THEN IF types[1] = "object" THEN MergeObjects(schemas)
                  ELSE BaseSchema(schemas)
             ELSE [anyOf |-> schemas]


\* --------------------------------------------------------- string formats
Digits == {"0", "1", "2", "3", "4", "5", "6", "7", "8", "9"}
Letters ==
    {"a", "b", "c", "d", "e", "f", "g", "h", "i", "j", "k", "l", "m", "n",
     "o", "p", "q", "r", "s", "t", "u", "v", "w", "x", "y", "z"}

DigitVal(c) ==
    CASE c = "0" -> 0 [] c = "1" -> 1 [] c = "2" -> 2 [] c = "3" -> 3
      [] c = "4" -> 4 [] c = "5" -> 5 [] c = "6" -> 6 [] c = "7" -> 7
      [] c = "8" -> 8 [] c = "9" -> 9

\* The two-digit number at positions i, i+1 of cs.
TwoDigits(cs, i) == 10 * DigitVal(cs[i]) + DigitVal(cs[i + 1])

\* value.includes(c)
Includes(cs, c) == \E i \in DOMAIN cs : cs[i] = c

\* The schemes for which the URL parser requires a host.
SpecialSchemes ==
    {<<"h", "t", "t", "p">>, <<"h", "t", "t", "p", "s">>, <<"f", "t", "p">>,
     <<"w", "s">>, <<"w", "s", "s">>}

\* new URL(value) does not throw: value starts with a scheme (a letter, then
\* letters, digits, "+", "-", "."), a colon, and, for a special scheme, a
\* non-empty host after the slashes.  (The sample strings hold no white
\* space and no character a host forbids.)
ParsesAsURL(cs) ==
    \E k \in DOMAIN cs :
        /\ cs[k] = ":"
        /\ \A i \in 1..(k - 1) : cs[i] # ":"
        /\ k > 1
        /\ cs[1] \in Letters
        /\ \A i \in 2..(k - 1) : cs[i] \in Letters \cup Digits \cup {"+", "-", "."}
        /\ SubSeq(cs, 1, k - 1) \in SpecialSchemes
              => \E i \in (k + 1)..Len(cs) : cs[i] \notin {"/", "\\"}

\* /^\d{4}-\d{2}-\d{2}/ matches at the start of cs.
DatePrefix(cs) ==
    /\ Len(cs) >= 10
    /\ \A i \in {1, 2, 3, 4, 6, 7, 9, 10} : cs[i] \in Digits
    /\ cs[5] = "-"
    /\ cs[8] = "-"

\* value.match(/^\d{4}-\d{2}-\d{2}$/)
MatchesDate(cs) == DatePrefix(cs) /\ Len(cs) = 10

\* value.match(/^\d{4}-\d{2}-\d{2}T\d{2}:\d{2}:\d{2}/)
MatchesDateTime(cs) ==
    /\ DatePrefix(cs)
    /\ Len(cs) >= 19
    /\ cs[11] = "T"
    /\ \A i \in {12, 13, 15, 16, 18, 19} : cs[i] \in Digits
    /\ cs[14] = ":"
    /\ cs[17] = ":"

\* The month and day fields Date.parse accepts.
ValidYMD(cs) ==
    /\ TwoDigits(cs, 6) \in 1..12
    /\ TwoDigits(cs, 9) \in 1..31

\* !isNaN(Date.parse(value)) for a value matching the date-time pattern
\* followed by nothing or by "Z".
ValidDateTime(cs) ==
    /\ ValidYMD(cs)
    /\ \/ /\ TwoDigits(cs, 12) \in 0..23
          /\ TwoDigits(cs, 15) \in 0..59
          /\ TwoDigits(cs, 18) \in 0..59
       \/ /\ TwoDigits(cs, 12) = 24
          /\ TwoDigits(cs, 15) = 0
          /\ TwoDigits(cs, 18) = 0
    /\ SubSeq(cs, 20, Len(cs)) \in {<<>>, <<"Z">>}

\* Mutant: the email test is made before the URL test.
FormatOfEmailFirst(cs) ==
    IF Includes(cs, "@") /\ Includes(cs, ".") THEN "email"
    ELSE IF ParsesAsURL(cs) THEN "uri"
    ELSE IF MatchesDate(cs) /\ ValidYMD(cs) THEN "date"
    ELSE IF MatchesDateTime(cs) /\ ValidDateTime(cs) THEN "date-time"
    ELSE "none"

\* The format inferSchema attaches to a string ("none": no format field).
FormatOf(cs) ==
    IF ParsesAsURL(cs) THEN "uri"
    ELSE IF Includes(cs, "@") /\ Includes(cs, ".") THEN "email"
    ELSE IF MatchesDate(cs) /\ ValidYMD(cs) THEN "date"
    ELSE IF MatchesDateTime(cs) /\ ValidDateTime(cs) THEN "date-time"
    ELSE "none"

StringFragment(cs) ==
    IF FormatOf(cs) = "none" THEN [type |-> "string"]
    ELSE [type |-> "string", format |-> FormatOf(cs)]

\* Mutant: the number is tested for truth first, so 0 is no integer.
IsIntegerTruthy(v) == v.tenths # 0 /\ v.tenths % 10 = 0

\* Number.isInteger(value)
IsInteger(v) == v.tenths % 10 = 0

\* Mutant: every number is typed "number".
NumberFragmentNoInteger(v) == [type |-> "number"]

NumberFragment(v) == [type |-> IF IsInteger(v) THEN "integer" ELSE "number"]

\* typeof value
Typeof(v) ==
    IF v.kind \in {"null", "array", "object"} THEN "object" ELSE v.kind

IsArray(v) == v.kind = "array"

\* Mutant: the fragment of an empty array carries no items.
EmptyArrayFragmentNoItems == [type |-> "array"]

EmptyArrayFragment == [type |-> "array", items |-> EmptyFragment]
CycleFragment == [type |-> "object"]
NewObjectSchema ==
    [type |-> "object", properties |-> EmptyProps, required |-> <<>>]


\* ------------------------------------------------------------- inferSchema
\* The branch of inferSchema that handles v, by the order of its tests.
Dispatch(v) ==
    IF v.kind = "null" THEN "null"
    ELSE IF IsArray(v) THEN "array"
    ELSE IF Typeof(v) = "object" THEN "object"
    ELSE IF Typeof(v) = "string" THEN "string"
    ELSE IF Typeof(v) = "number" THEN "number"
    ELSE IF Typeof(v) = "boolean" THEN "boolean"
    ELSE "fallback"

\* visited.has(value), tested by the object branch alone.
CycleGuardHit(v, id, seen) == Dispatch(v) = "object" /\ id \in seen

Top == stack[Len(stack)]
Pop == SubSeq(stack, 1, Len(stack) - 1)
SetTop(f) == [stack EXCEPT ![Len(stack)] = f]

\* Mutant: the recursive call is made on value instead of on the item.
CurSlotSameValue == IF stack = <<>> THEN <<>> ELSE Top.id

\* The position the argument of the current call is read from.
CurSlot == IF stack = <<>> THEN <<>> ELSE Append(Top.id, Top.i)
\* The identity of the array or object the current call is made on.
CurId ==
    IF At(root, CurSlot).kind = "ref" THEN At(root, CurSlot).path ELSE CurSlot
\* The argument of the current call.
CurVal == At(root, CurId)

Frame(k, id) ==
    [kind |-> k, id |-> id, i |-> 1, itemSchemas |-> <<>>,
     schema |-> IF k = "object" THEN NewObjectSchema ELSE NoFragment]

\* Slots (elements and property values, at every level) of a value.
RECURSIVE Size(_)
Size(v) ==
    IF ~IsComposite(v) THEN 0
    ELSE LET RECURSIVE Sum(_)
             Sum(i) == IF i = 0 THEN 0 ELSE 1 + Size(Child(v, i)) + Sum(i - 1)
         IN  Sum(NumChildren(v))

\* What fs.readFileSync and JSON.parse make of the sample file: "ok", or the
\* error one of them throws.
FileOutcomes == {"ok", "ENOENT", "EACCES", "malformed"}

\* The process before generateSchema has run.
NewProcess(f) ==
    [file |-> f, log |-> "none", exitStatus |-> "none",
     siteAssets |-> "untouched"]

\* No top-level call was made before, no call of unifySchemas was made yet.
NoCall == [none |-> TRUE]
NoUnify == [none |-> TRUE]

\* The states before the first call, on the values of S: the value parsed
\* from a readable sample file or handed over in memory, or no value at all
\* when the file cannot be read or parsed.
InitOn(S) ==
    /\ \/ root \in S /\ proc = NewProcess("ok")
       \/ root = Undefined /\ proc \in {NewProcess(f) : f \in FileOutcomes \ {"ok"}}
    /\ pc = "idle"
    /\ stack = <<>>
    /\ visited = {}
    /\ ret = NoFragment
    /\ result = NoFragment
    /\ branch = "none"
    /\ unifyCalls = 0
    /\ unifyArgs = NoUnify
    /\ prev = NoCall

Init == InitOn(Inputs)

\* Mutant: one set, at module level, is shared by the top-level calls.
FreshVisitedShared == visited

\* visited = new WeakSet(): the default of the second parameter.
FreshVisited == {}

\* inferSchema(v): a top-level call without a second argument.
Call(v) ==
    /\ root' = v
    /\ pc' = "call"
    /\ stack' = <<>>
    /\ visited' = FreshVisited
    /\ ret' = NoFragment
    /\ result' = NoFragment
    /\ branch' = "start"
    /\ unifyCalls' = 0
    /\ unifyArgs' = NoUnify

\* generateSchema: the file is read and parsed, inferSchema(data) is called.
Start ==
    /\ pc = "idle"
    /\ proc.file = "ok"
    /\ Call(root)
    /\ UNCHANGED <<prev, proc>>

\* A call that returns f at once, from branch b.
Return(f, b) ==
    /\ pc' = "ret"
    /\ ret' = f
    /\ branch' = b
    /\ UNCHANGED <<root, stack, visited, result, unifyCalls, unifyArgs, prev, proc>>

InferNull ==
    /\ pc = "call"
    /\ Dispatch(CurVal) = "null"
    /\ Return([type |-> "null"], "null")

InferEmptyArray ==
    /\ pc = "call"
    /\ Dispatch(CurVal) = "array"
    /\ Len(CurVal.elems) = 0
    /\ Return(EmptyArrayFragment, "emptyArray")

\* value.map(item => inferSchema(item, visited)) begins.
InferArrayEnter ==
    /\ pc = "call"
    /\ Dispatch(CurVal) = "array"
    /\ Len(CurVal.elems) # 0
    /\ Len(stack) < MaxStack
    /\ stack' = Append(stack, Frame("array", CurId))
    /\ pc' = "call"
    /\ branch' = "arrayEnter"
    /\ UNCHANGED <<root, visited, ret, result, unifyCalls, unifyArgs, prev, proc>>

InferCycleGuard ==
    /\ pc = "call"
    /\ CycleGuardHit(CurVal, CurId, visited)
    /\ Return(CycleFragment, "cycleGuard")

\* visited.add(value) and the loop over Object.entries(value) begins.
InferObjectEnter ==
    /\ pc = "call"
    /\ Dispatch(CurVal) = "object"
    /\ ~CycleGuardHit(CurVal, CurId, visited)
    /\ Len(stack) < MaxStack
    /\ visited' = visited \cup {CurId}
    /\ stack' = Append(stack, Frame("object", CurId))
    /\ pc' = IF Len(CurVal.entries) = 0 THEN "exit" ELSE "call"
    /\ branch' = "objectEnter"
    /\ UNCHANGED <<root, ret, result, unifyCalls, unifyArgs, prev, proc>>

InferString ==
    /\ pc = "call"
    /\ Dispatch(CurVal) = "string"
    /\ Return(StringFragment(CurVal.chars), "string")

InferNumber ==
    /\ pc = "call"
    /\ Dispatch(CurVal) = "number"
    /\ Return(NumberFragment(CurVal), "number")

InferBoolean ==
    /\ pc = "call"
    /\ Dispatch(CurVal) = "boolean"
    /\ Return([type |-> "boolean"], "boolean")

InferFallback ==
    /\ pc = "call"
    /\ Dispatch(CurVal) = "fallback"
    /\ Return([type |-> "string"], "fallback")

\* The recursion is deeper than the call stack: RangeError, which no frame
\* of inferSchema catches.
StackOverflow ==
    /\ pc = "call"
    /\ \/ Dispatch(CurVal) = "array" /\ Len(CurVal.elems) # 0
       \/ Dispatch(CurVal) = "object" /\ ~CycleGuardHit(CurVal, CurId, visited)
    /\ Len(stack) >= MaxStack
    /\ pc' = "overflow"
    /\ branch' = "rangeError"
    /\ UNCHANGED <<root, stack, visited, ret, result, unifyCalls, unifyArgs, prev, proc>>

\* The callback of map returns: the fragment of one item is collected.
ReturnToArray ==
    /\ pc = "ret"
    /\ stack # <<>>
    /\ Top.kind = "array"
    /\ stack' = SetTop([Top EXCEPT !.itemSchemas = Append(@, ret),
                                   !.i = @ + 1])
    /\ pc' = IF Top.i < Len(At(root, Top.id).elems) THEN "call" ELSE "exit"
    /\ ret' = NoFragment
    /\ branch' = "arrayItem"
    /\ UNCHANGED <<root, visited, result, unifyCalls, unifyArgs, prev, proc>>

\* Mutant: the unified fragment is returned as it is, not as items.
ArrayExitUnwrapped ==
    /\ pc = "exit"
    /\ Top.kind = "array"
    /\ ret' = UnifySchemas(Top.itemSchemas)
    /\ unifyCalls' = unifyCalls + 1
    /\ unifyArgs' = [passed |-> Top.itemSchemas,
                     after |-> ArgsAfterUnify(Top.itemSchemas),
                     returned |-> UnifySchemas(Top.itemSchemas)]
    /\ stack' = Pop
    /\ pc' = "ret"
    /\ branch' = "array"
    /\ UNCHANGED <<root, visited, result, prev, proc>>

\* unifySchemas(itemSchemas) and the return of the array fragment.
ArrayExit ==
    /\ pc = "exit"
    /\ Top.kind = "array"
    /\ ret' = [type |-> "array", items |-> UnifySchemas(Top.itemSchemas)]
    /\ unifyCalls' = unifyCalls + 1
    /\ unifyArgs' = [passed |-> Top.itemSchemas,
                     after |-> ArgsAfterUnify(Top.itemSchemas),
                     returned |-> UnifySchemas(Top.itemSchemas)]
    /\ stack' = Pop
    /\ pc' = "ret"
    /\ branch' = "array"
    /\ UNCHANGED <<root, visited, result, prev, proc>>

\* schema.properties[key] = inferSchema(val, visited); required.push(key)
ReturnToObject ==
    /\ pc = "ret"
    /\ stack # <<>>
    /\ Top.kind = "object"
    /\ LET key == At(root, Top.id).entries[Top.i].key
       IN  stack' = SetTop([Top EXCEPT
                 !.schema = [@ EXCEPT !.properties = PropSet(@, key, ret),
                                      !.required = Append(@, key)],
                 !.i = @ + 1])
    /\ pc' = IF Top.i < Len(At(root, Top.id).entries) THEN "call" ELSE "exit"
    /\ ret' = NoFragment
    /\ branch' = "objectProperty"
    /\ UNCHANGED <<root, visited, result, unifyCalls, unifyArgs, prev, proc>>

\* Mutant: the object stays in visited when its call returns.
ObjectExitNoDelete ==
    /\ pc = "exit"
    /\ Top.kind = "object"
    /\ ret' = Top.schema
    /\ stack' = Pop
    /\ pc' = "ret"
    /\ branch' = "object"
    /\ UNCHANGED <<root, visited, result, unifyCalls, unifyArgs, prev, proc>>

\* visited.delete(value); return schema
ObjectExit ==
    /\ pc = "exit"
    /\ Top.kind = "object"
    /\ visited' = visited \ {Top.id}
    /\ ret' = Top.schema
    /\ stack' = Pop
    /\ pc' = "ret"
    /\ branch' = "object"
    /\ UNCHANGED <<root, result, unifyCalls, unifyArgs, prev, proc>>

\* The top-level call returns to its caller.
ReturnTop ==
    /\ pc = "ret"
    /\ stack = <<>>
    /\ result' = ret
    /\ pc' = "done"
    /\ branch' = "returned"
    /\ UNCHANGED <<root, stack, visited, ret, unifyCalls, unifyArgs, prev, proc>>

\* ------------------------------------------------------- a second call
\* The values a second top-level call is made on have at most MaxRecallSize
\* slots.
MaxRecallSize == 3

\* v with every primitive replaced by another one: of the same JSON kind
\* (how == "kind": any number by 5), or also of the same type tag
\* (how == "tag": a whole number by a whole number, a fraction by a
\* fraction). Nesting, keys, key order and references are kept.
RECURSIVE Revalued(_, _)
Revalued(v, how) ==
    IF v.kind = "array"
    THEN ArrayNode([i \in 1..Len(v.elems) |-> Revalued(v.elems[i], how)])
    ELSE IF v.kind = "object"
    THEN ObjectNode([i \in 1..Len(v.entries) |->
             [key |-> v.entries[i].key,
              val |-> Revalued(v.entries[i].val, how)]])
    ELSE IF v.kind = "number"
    THEN IF how = "kind" THEN Num(50)
         ELSE IF v.tenths % 10 # 0 THEN Num(15)
         ELSE IF v = Num(0) THEN Num(50) ELSE Num(0)
    ELSE IF v.kind = "string"
    THEN IF v = Str(SEmail) THEN Str(SHi) ELSE Str(SEmail)
    ELSE IF v.kind = "boolean" THEN Bool(~v.b)
    ELSE v

\* The values of the second call: the same value again, or one of the
\* same structure.
SecondValues(v) == {v, Revalued(v, "kind"), Revalued(v, "tag")}

\* inferSchema is called once more, after a call that returned or threw.
Recall ==
    /\ pc \in {"done", "overflow"}
    /\ prev = NoCall
    /\ proc.siteAssets = "untouched"
    /\ Size(root) <= MaxRecallSize
    /\ \E v \in SecondValues(root) : Call(v)
    /\ prev' = [value |-> root, fragment |-> result]
    /\ UNCHANGED proc

\* ------------------------------------------------- generateSchema and main
\* log(message, 'red'); process.exit(1)
Exit1(message) ==
    /\ proc' = [proc EXCEPT !.log = message, !.exitStatus = "1"]
    /\ pc' = "exited"
    /\ branch' = "exit1"
    /\ UNCHANGED <<root, stack, visited, ret, result, unifyCalls, unifyArgs,
                   prev>>

\* fs.readFileSync throws: the catch block of generateSchema.
ReadFails ==
    /\ pc = "idle"
    /\ proc.file \in {"ENOENT", "EACCES"}
    /\ Exit1(IF proc.file = "ENOENT" THEN "fileNotFound" ELSE "error")

\* Mutant: the SyntaxError is logged and generateSchema returns undefined.
ParseFailsNoExit ==
    /\ pc = "idle"
    /\ proc.file = "malformed"
    /\ proc' = [proc EXCEPT !.log = "invalidJSON"]
    /\ pc' = "done"
    /\ branch' = "returned"
    /\ UNCHANGED <<root, stack, visited, ret, result, unifyCalls, unifyArgs,
                   prev>>

\* JSON.parse throws a SyntaxError: the catch block of generateSchema.
ParseFails ==
    /\ pc = "idle"
    /\ proc.file = "malformed"
    /\ Exit1("invalidJSON")

\* inferSchema throws the RangeError: the last branch of the catch block.
InferThrows ==
    /\ pc = "overflow"
    /\ Exit1("error")

\* main, after generateSchema has returned: loadSiteAssets(), which exits
\* with status 1 when site-assets.json cannot be read.
LoadSiteAssets ==
    /\ pc = "done"
    /\ proc.siteAssets = "untouched"
    /\ \E readable \in BOOLEAN :
           IF readable
           THEN /\ proc' = [proc EXCEPT !.siteAssets = "loaded"]
                /\ pc' = "done"
                /\ branch' = "loaded"
           ELSE /\ proc' = [proc EXCEPT !.log = "siteAssetsError",
                                        !.exitStatus = "1"]
                /\ pc' = "exited"
                /\ branch' = "exit1"
    /\ UNCHANGED <<root, stack, visited, ret, result, unifyCalls, unifyArgs,
                   prev>>

\* main, after loadSiteAssets(): the schema is stored in the asset and
\* site-assets.json is saved; it is printed when no asset matches; the
\* process exits with status 1 when the file cannot be written.
UpdateSiteAssets ==
    /\ pc = "done"
    /\ proc.siteAssets = "loaded"
    /\ \E outcome \in {"written", "printed", "failed"} :
           proc' = [proc EXCEPT
               !.siteAssets = IF outcome = "written" THEN "written" ELSE @,
               !.log = outcome,
               !.exitStatus = IF outcome = "failed" THEN "1" ELSE "0"]
    /\ pc' = "exited"
    /\ branch' = "main"
    /\ UNCHANGED <<root, stack, visited, ret, result, unifyCalls, unifyArgs,
                   prev>>

\* The steps of a call in progress.
Step ==
    \/ InferNull
    \/ InferEmptyArray
    \/ InferArrayEnter
    \/ InferCycleGuard
    \/ InferObjectEnter
    \/ InferString
    \/ InferNumber
    \/ InferBoolean
    \/ InferFallback
    \/ StackOverflow
    \/ ReturnToArray
    \/ ArrayExit
    \/ ReturnToObject
    \/ ObjectExit
    \/ ReturnTop

Next ==
    \/ Start
    \/ Recall
    \/ ReadFails
    \/ ParseFails
    \/ InferThrows
    \/ LoadSiteAssets
    \/ UpdateSiteAssets
    \/ Step

Spec == Init /\ [][Next]_vars

\* The inputs of the liveness specification: the values of at most
\* MaxLiveSize slots.
MaxLiveSize == 4
InitLive == InitOn({v \in Inputs : Size(v) <= MaxLiveSize})

\* inferSchema is synchronous: a call in progress keeps running.
LiveSpec == InitLive /\ [][Next]_vars /\ WF_vars(Step)


\* ------------------------------------------------------- shape of the input
\* The identity a slot holds: the literal itself, or the target of a Ref.
TargetOf(v, slot) ==
    IF At(v, slot).kind = "ref" THEN At(v, slot).path ELSE slot

\* The arrays and objects the array or object p of v refers to directly.
Successors(v, p) ==
    {TargetOf(v, Append(p, i)) : i \in
        {j \in 1..NumChildren(At(v, p)) :
            At(v, Append(p, j)).kind \in {"ref", "array", "object"}}}

\* The arrays and objects reachable from those of S in at most n steps.
RECURSIVE ReachableFrom(_, _, _)
ReachableFrom(v, S, n) ==
    IF n = 0 THEN S
    ELSE ReachableFrom(v, S \cup UNION {Successors(v, p) : p \in S}, n - 1)

Composites(v) == {p \in CompositePaths : IsCompositeAt(v, p)}

\* Some array or object of v is reachable from itself.
Cyclic(v) ==
    \E p \in Composites(v) :
        p \in ReachableFrom(v, Successors(v, p), Cardinality(Composites(v)))

\* Some array of v is reachable from itself through arrays alone.
ArraySuccessors(v, p) ==
    {q \in Successors(v, p) : At(v, q).kind = "array"}

RECURSIVE ArrayReachableFrom(_, _, _)
ArrayReachableFrom(v, S, n) ==
    IF n = 0 THEN S
    ELSE ArrayReachableFrom(
             v, S \cup UNION {ArraySuccessors(v, p) : p \in S}, n - 1)

ArrayCyclic(v) ==
    \E p \in Composites(v) :
        /\ At(v, p).kind = "array"
        /\ p \in ArrayReachableFrom(v, ArraySuccessors(v, p),
                                    Cardinality(Composites(v)))

\* ------------------------------------------------------------------ claims
\* A fragment of the shapes inferSchema builds.
RECURSIVE IsFragment(_)
IsFragment(f) ==
    /\ DOMAIN f \subseteq
           {"type", "format", "items", "properties", "required", "anyOf"}
    /\ "items" \in DOMAIN f => IsFragment(f.items)
    /\ "properties" \in DOMAIN f =>
           \A i \in DOMAIN f.properties : IsFragment(f.properties[i].val)
    /\ "anyOf" \in DOMAIN f =>
           \A i \in DOMAIN f.anyOf : IsFragment(f.anyOf[i])

\* C1 (termination): a top-level call of inferSchema on a value without a
\* cycle terminates, that is, it reaches the state in which the call has
\* returned, and what it has returned is a fragment.
C1_Terminates ==
    (pc = "call" /\ ~Cyclic(root))
        ~> (pc = "done" /\ result # NoFragment /\ IsFragment(result))

\* C1 witness: the call on a value of two nesting levels without a cycle
\* has returned.
C1_Witness ==
    /\ pc = "done"
    /\ ~Cyclic(root)
    /\ \E i \in 1..NumChildren(root) : IsComposite(Child(root, i))


\* The type tag of the JSON kind of a value.
ExpectedTag(v) ==
    CASE v.kind = "null" -> "null"
      [] v.kind = "array" -> "array"
      [] v.kind = "object" -> "object"
      [] v.kind = "string" -> "string"
      [] v.kind = "number" /\ v \in {Num(50), Num(0)} -> "integer"
      [] v.kind = "number" /\ v \in {Num(55), Num(15)} -> "number"
      [] v.kind = "boolean" -> "boolean"
      [] OTHER -> "string"

\* C2 (type tag): whenever a call of inferSchema has returned, at the top
\* level or nested, the type field of the fragment it returned is the tag of
\* the JSON kind of its argument: "null", "array", "object", "string",
\* "integer" for 5 and 0, "number" for 5.5 and 1.5, "boolean", and "string"
\* for a value of no JSON kind.
C2_TypeMatchesKind ==
    pc = "ret" => "type" \in DOMAIN ret /\ ret.type = ExpectedTag(CurVal)

\* C2 witness: a call on the fractional number 5.5 inside an array or
\* object has returned {type: "number"}.
C2_Witness ==
    /\ pc = "ret"
    /\ stack # <<>>
    /\ CurVal = Num(55)
    /\ ret = [type |-> "number"]

\* The value has a property that refers to the value itself.
HasSelfProperty(v) ==
    /\ v.kind = "object"
    /\ \E i \in DOMAIN v.entries : v.entries[i].val = Ref(<<>>)

\* C3 (object cycle): a call of inferSchema on an object with a property
\* that refers to the object itself terminates, it never ends in the
\* RangeError of an exhausted call stack, and what it returns is an object
\* fragment with properties and required in which every self-referential
\* property has the fragment {type: "object"}.
C3_SelfReferenceReturns ==
    HasSelfProperty(root) =>
        /\ pc # "overflow"
        /\ pc = "done" =>
              /\ DOMAIN result = {"type", "properties", "required"}
              /\ result.type = "object"
              /\ \A i \in DOMAIN root.entries :
                    root.entries[i].val = Ref(<<>>) =>
                        result.properties[i] =
                            [key |-> root.entries[i].key,
                             val |-> [type |-> "object"]]

\* The RangeError arises only on a value with an array reachable from itself
\* through arrays alone: the object guard stops every other cycle.
OverflowOnlyFromArrayCycle == pc = "overflow" => ArrayCyclic(root)

\* C4 (array cycle): an array whose call is in progress is never entered
\* again, and no call ends in the RangeError of an exhausted call stack.
C4_ArrayCycleGuarded ==
    /\ pc # "overflow"
    /\ \A i, j \in DOMAIN stack :
          (i < j /\ stack[i].kind = "array") => stack[i].id # stack[j].id

\* All fragments carry the same type tag, and it is not "object".
SameNonObjectType(schemas) ==
    /\ schemas # <<>>
    /\ \A i \in DOMAIN schemas :
          /\ "type" \in DOMAIN schemas[i]
          /\ schemas[i].type = schemas[1].type
          /\ schemas[i].type # "object"

\* C5 (first fragment): when the fragments of the items of an array all
\* carry one type tag other than "object", the items of the array fragment
\* is the first of them as it is, type field included.
C5_FirstFragmentAsIs ==
    [][(pc = "exit" /\ Top.kind = "array"
            /\ SameNonObjectType(Top.itemSchemas))
          => ret'.items = Top.itemSchemas[1]]_vars


\* All fragments carry the type tag "object".
AllObject(schemas) ==
    /\ schemas # <<>>
    /\ \A i \in DOMAIN schemas :
          "type" \in DOMAIN schemas[i] /\ schemas[i].type = "object"

\* The keys of the properties map of a fragment.
KeysOf(s) ==
    IF "properties" \in DOMAIN s
    THEN {s.properties[i].key : i \in DOMAIN s.properties} ELSE {}

\* The last fragment of the sequence that has the key k.
LastWith(schemas, k) ==
    CHOOSE i \in DOMAIN schemas :
        /\ k \in KeysOf(schemas[i])
        /\ \A j \in DOMAIN schemas : j > i => k \notin KeysOf(schemas[j])

\* C6 (property union): when the fragments of the items of an array all have
\* type "object", the items of the array fragment is one object fragment
\* whose properties map has exactly the keys of all the fragments, each
\* once, and under each key the sub-schema of the last fragment that has the
\* key, unmerged.
C6_PropertiesUnionLastWins ==
    [][(pc = "exit" /\ Top.kind = "array" /\ AllObject(Top.itemSchemas))
          => LET in == Top.itemSchemas
                 out == ret'.items
             IN  /\ DOMAIN out = {"type", "properties", "required"}
                 /\ out.type = "object"
                 /\ KeysOf(out) = UNION {KeysOf(in[i]) : i \in DOMAIN in}
                 /\ Len(out.properties) = Cardinality(KeysOf(out))
                 /\ \A k \in KeysOf(out) :
                       PropGet(out.properties, k) =
                           PropGet(in[LastWith(in, k)].properties, k)]_vars

\* C6 witness: the call on [{a: 5}, {a: "x"}] has returned, and the merged
\* items has under "a" the sub-schema of the second object.
C6_Witness ==
    /\ pc = "done"
    /\ root = ArrayNode(<<ObjectNode(<<[key |-> "a", val |-> Num(50)]>>),
                          ObjectNode(<<[key |-> "a", val |-> Str(<<"x">>)]>>)>>)
    /\ result.items.properties = <<[key |-> "a", val |-> [type |-> "string"]]>>

\* The required lists of the fragments, one after the other.
RECURSIVE RequiredConcat(_)
RequiredConcat(schemas) ==
    IF schemas = <<>> THEN <<>>
    ELSE (IF "required" \in DOMAIN Head(schemas)
          THEN Head(schemas).required ELSE <<>>)
             \o RequiredConcat(Tail(schemas))

\* The first occurrences of the elements among the first n of seq, in order.
RECURSIVE FirstOccurrences(_, _)
FirstOccurrences(seq, n) ==
    IF n = 0 THEN <<>>
    ELSE IF \E j \in 1..(n - 1) : seq[j] = seq[n]
         THEN FirstOccurrences(seq, n - 1)
         ELSE Append(FirstOccurrences(seq, n - 1), seq[n])

\* C7 (required union): when the fragments of the items of an array all have
\* type "object", the required list of the merged items holds the keys of
\* all their required lists, each once, in the order of first occurrence.
C7_RequiredUnionFirstSeen ==
    [][(pc = "exit" /\ Top.kind = "array" /\ AllObject(Top.itemSchemas))
          => LET all == RequiredConcat(Top.itemSchemas)
             IN  /\ "required" \in DOMAIN ret'.items
                 /\ ret'.items.required = FirstOccurrences(all, Len(all))]_vars

\* C7 witness: the call on [{a: 5}, {a: 5, b: "x"}] has returned with the
\* required list ["a", "b"].
C7_Witness ==
    /\ pc = "done"
    /\ root = ArrayNode(<<ObjectNode(<<[key |-> "a", val |-> Num(50)]>>),
                          ObjectNode(<<[key |-> "a", val |-> Num(50)],
                                       [key |-> "b", val |-> Str(<<"x">>)]>>)>>)
    /\ result.items.required = <<"a", "b">>

\* The fragments carry more than one type tag.
MixedTypes(schemas) ==
    \E i, j \in DOMAIN schemas :
        /\ "type" \in DOMAIN schemas[i]
        /\ "type" \in DOMAIN schemas[j]
        /\ schemas[i].type # schemas[j].type

\* C8 (disjunction): when the fragments of the items of an array carry more
\* than one type tag, "integer" and "number" being two, the items of the
\* array fragment is {anyOf: fragments}: every fragment, unchanged, in the
\* order of the items, equal fragments included.
C8_MixedTypesAnyOf ==
    [][(pc = "exit" /\ Top.kind = "array" /\ MixedTypes(Top.itemSchemas))
          => /\ DOMAIN ret'.items = {"anyOf"}
             /\ Len(ret'.items.anyOf) = Len(At(root, Top.id).elems)
             /\ ret'.items.anyOf = Top.itemSchemas]_vars

\* C8 witness: the call on [5, 5.5, 5] has returned the disjunction of the
\* three fragments, the two equal ones included.
C8_Witness ==
    /\ pc = "done"
    /\ root = ArrayNode(<<Num(50), Num(55), Num(50)>>)
    /\ result.items =
           [anyOf |-> <<[type |-> "integer"], [type |-> "number"],
                        [type |-> "integer"]>>]

\* C9 (empty array): a call of inferSchema on an empty array, at the top
\* level or nested, returns {type: "array", items: {}} at once, without a
\* call of unifySchemas.
C9_EmptyArray ==
    [][(pc = "call" /\ CurVal.kind = "array" /\ CurVal.elems = <<>>)
          => /\ pc' = "ret"
             /\ DOMAIN ret' = {"type", "items"}
             /\ ret'.type = "array"
             /\ DOMAIN ret'.items = {}
             /\ unifyCalls' = unifyCalls
             /\ stack' = stack]_vars

\* C9 witness: a call on an empty array nested in an object or array has
\* returned.
C9_Witness ==
    /\ pc = "ret"
    /\ branch = "emptyArray"
    /\ stack # <<>>
    /\ CurVal = ArrayNode(<<>>)

\* In f and in every fragment inside f, a fragment that carries properties
\* has a required list that holds exactly the keys of properties, in the
\* order of the map.
RECURSIVE RequiredMatchesProperties(_)
RequiredMatchesProperties(f) ==
    /\ "properties" \in DOMAIN f =>
          /\ "required" \in DOMAIN f
          /\ f.required = PropKeys(f.properties)
          /\ \A i, j \in DOMAIN f.required :
                i # j => f.required[i] # f.required[j]
          /\ \A i \in DOMAIN f.properties :
                RequiredMatchesProperties(f.properties[i].val)
    /\ "items" \in DOMAIN f => RequiredMatchesProperties(f.items)
    /\ "anyOf" \in DOMAIN f =>
          \A i \in DOMAIN f.anyOf : RequiredMatchesProperties(f.anyOf[i])

\* C10 (required = keys of properties): in every fragment a call of
\* inferSchema returns, each object fragment with properties, at any depth,
\* built from one object or by unification, has as required list exactly the
\* keys of its properties, each once, in first-seen order; for a fragment
\* built from one object that is the order of the object's properties.
C10_RequiredIsPropertyKeys ==
    pc = "ret" =>
        /\ RequiredMatchesProperties(ret)
        /\ branch = "object" =>
              ret.required =
                  [i \in DOMAIN CurVal.entries |-> CurVal.entries[i].key]

\* Some fragment inside f, or f itself, is a disjunction.
RECURSIVE HasAnyOf(_)
HasAnyOf(f) ==
    \/ "anyOf" \in DOMAIN f
    \/ "items" \in DOMAIN f /\ HasAnyOf(f.items)
    \/ "properties" \in DOMAIN f /\
           \E i \in DOMAIN f.properties : HasAnyOf(f.properties[i].val)

\* C11 as stated (no anyOf inside a single-type unification): when the
\* fragments of the items of an array all carry one type tag, the unified
\* fragment, which becomes the items of the array fragment, holds no anyOf
\* at any depth.
C11_NoAnyOfInSingleType ==
    [][(/\ pc = "exit"
        /\ Top.kind = "array"
        /\ SameNonObjectType(Top.itemSchemas) \/ AllObject(Top.itemSchemas))
           => ~HasAnyOf(ret'.items)]_vars

\* Every anyOf of f is the items of its holder (asItems tells whether f is
\* itself in that position), has no other field, and lists fragments that
\* carry a type tag each, two of them at least with different tags.
RECURSIVE AnyOfAtDisagreement(_, _)
AnyOfAtDisagreement(f, asItems) ==
    /\ "anyOf" \in DOMAIN f =>
          /\ asItems
          /\ DOMAIN f = {"anyOf"}
          /\ \A i \in DOMAIN f.anyOf : "type" \in DOMAIN f.anyOf[i]
          /\ \E i, j \in DOMAIN f.anyOf : f.anyOf[i].type # f.anyOf[j].type
          /\ \A i \in DOMAIN f.anyOf : AnyOfAtDisagreement(f.anyOf[i], FALSE)
    /\ "items" \in DOMAIN f => AnyOfAtDisagreement(f.items, TRUE)
    /\ "properties" \in DOMAIN f =>
          \A i \in DOMAIN f.properties :
              AnyOfAtDisagreement(f.properties[i].val, FALSE)

\* C11 amended (anyOf only where the types disagree): unifySchemas returns
\* an anyOf exactly when the fragments it is given carry different type
\* tags, and in every fragment inferSchema returns each anyOf, at any depth,
\* is the items of an array whose items disagreed on type; such an anyOf may
\* sit inside the result of a single-type unification of an outer array.
C11_AnyOfOnlyAtDisagreement ==
    /\ pc = "ret" => AnyOfAtDisagreement(ret, FALSE)
    /\ unifyArgs # NoUnify =>
          ("anyOf" \in DOMAIN unifyArgs.returned
              <=> \E i, j \in DOMAIN unifyArgs.passed :
                      TypeOf(unifyArgs.passed[i]) # TypeOf(unifyArgs.passed[j]))

\* C11 witness: the call on an array of arrays has returned a fragment whose
\* items, the result of a single-type unification, holds the anyOf of an
\* inner array of mixed types.
C11_Witness ==
    /\ pc = "done"
    /\ "items" \in DOMAIN result
    /\ "items" \in DOMAIN result.items
    /\ "anyOf" \in DOMAIN result.items.items
    /\ unifyCalls >= 2

\* The slots of v: the positions of the elements and property values.
Slots(v) ==
    {p \in SeqsUpTo(1..MaxLen, MaxDepth) \ {<<>>} :
        /\ IsCompositeAt(v, SubSeq(p, 1, Len(p) - 1))
        /\ p[Len(p)] <= NumChildren(At(v, SubSeq(p, 1, Len(p) - 1)))}

\* The object id of v is referred to from two slots at least.
Shared(v, id) ==
    Cardinality({p \in Slots(v) : TargetOf(v, p) = id}) >= 2

\* The object id of v is its own ancestor.
OwnAncestor(v, id) ==
    id \in ReachableFrom(v, Successors(v, id), Cardinality(Composites(v)))

\* The fragment of an object of primitive values, inferred alone: every
\* key with the fragment of its value, and every key required.
FlatObject(o) ==
    \A i \in DOMAIN o.entries : ~IsComposite(o.entries[i].val)
                                    /\ o.entries[i].val.kind # "ref"
AloneFragment(o) ==
    [type |-> "object",
     properties |->
         [i \in 1..Len(o.entries) |->
             [key |-> o.entries[i].key,
              val |-> IF o.entries[i].val.kind = "string"
                      THEN StringFragment(o.entries[i].val.chars)
                      ELSE [type |-> ExpectedTag(o.entries[i].val)]]],
     required |-> [i \in 1..Len(o.entries) |-> o.entries[i].key]]

\* C12 (shared object): when the call on an object that two slots refer to
\* and that is not its own ancestor returns, at either slot, it has gone
\* through the object branch, not the cycle guard, and has returned the
\* fragment of that object inferred alone. (Within the bounds such an object
\* holds primitive values only.)
C12_SharedObjectInferredInFull ==
    (/\ pc = "ret"
     /\ stack # <<>>
     /\ CurVal.kind = "object"
     /\ Shared(root, CurId)
     /\ ~OwnAncestor(root, CurId))
        => /\ FlatObject(CurVal)
           /\ branch = "object"
           /\ ret = AloneFragment(CurVal)
           /\ CurId \notin visited

\* C12 witness: the call on the second reference to an object with a
\* property, sibling of the first, has returned the full fragment.
C12_Witness ==
    /\ pc = "ret"
    /\ stack # <<>>
    /\ At(root, CurSlot).kind = "ref"
    /\ CurSlot = <<2>>
    /\ CurId = <<1>>
    /\ CurVal.kind = "object"
    /\ ~OwnAncestor(root, CurId)
    /\ Len(CurVal.entries) >= 1
    /\ ret = AloneFragment(CurVal)

\* The formats the samples are to get ("none": no format field).
SampleFormats ==
    {<<SHi, "none">>, <<SUri, "uri">>, <<SMailto, "uri">>,
     <<SHttpNoHost, "none">>, <<SEmail, "email">>, <<SDate, "date">>,
     <<SBadDate, "none">>, <<SDateTime, "date-time">>,
     <<SBadDateTime, "none">>, <<SDateTimeMail, "email">>}

\* C13 (format precedence): the fragment of a string has the type "string"
\* and at most the one field format beside it; a string that parses as an
\* absolute URI gets "uri" whatever else it holds; one that does not and
\* holds both "@" and "." gets "email" even when it matches the date-time
\* pattern; then come "date" and "date-time", each for a string that
\* matches its pattern and parses as a date; a string that passes none of
\* the four tests gets no format field.
C13_FormatPrecedence ==
    (pc = "ret" /\ CurVal.kind = "string") =>
        LET cs == CurVal.chars
            uri == ParsesAsURL(cs)
            email == Includes(cs, "@") /\ Includes(cs, ".")
            date == MatchesDate(cs) /\ ValidYMD(cs)
            dateTime == MatchesDateTime(cs) /\ ValidDateTime(cs)
            format == IF "format" \in DOMAIN ret THEN ret.format ELSE "none"
        IN  /\ "type" \in DOMAIN ret
            /\ DOMAIN ret \subseteq {"type", "format"}
            /\ ret.type = "string"
            /\ uri => format = "uri"
            /\ (~uri /\ email) => format = "email"
            /\ (~uri /\ ~email /\ date) => format = "date"
            /\ (~uri /\ ~email /\ ~date /\ dateTime) => format = "date-time"
            /\ (~uri /\ ~email /\ ~date /\ ~dateTime) => format = "none"
            /\ \A sf \in SampleFormats : cs = sf[1] => format = sf[2]

\* C13 witness: the call on "m:a@b.c", an absolute URI that also holds "@"
\* and ".", has returned the format "uri".
C13_Witness ==
    /\ pc = "done"
    /\ root = Str(SMailto)
    /\ result = [type |-> "string", format |-> "uri"]

\* v and w have the same structure: the same nesting, the same keys in the
\* same order, the same references, and at every position primitives of the
\* same JSON kind.
RECURSIVE SameKinds(_, _)
SameKinds(v, w) ==
    /\ v.kind = w.kind
    /\ NumChildren(v) = NumChildren(w)
    /\ v.kind = "ref" => v.path = w.path
    /\ v.kind = "object" =>
          \A i \in 1..NumChildren(v) : v.entries[i].key = w.entries[i].key
    /\ \A i \in 1..NumChildren(v) : SameKinds(Child(v, i), Child(w, i))

\* The same, and at every position of a number both are whole or both are
\* fractional.
RECURSIVE SameTags(_, _)
SameTags(v, w) ==
    /\ v.kind = w.kind
    /\ NumChildren(v) = NumChildren(w)
    /\ v.kind = "ref" => v.path = w.path
    /\ v.kind = "number" => (v.tenths % 10 = 0 <=> w.tenths % 10 = 0)
    /\ v.kind = "object" =>
          \A i \in 1..NumChildren(v) : v.entries[i].key = w.entries[i].key
    /\ \A i \in 1..NumChildren(v) : SameTags(Child(v, i), Child(w, i))

\* f without the format fields, at every depth.
RECURSIVE StripFormat(_)
StripFormat(f) ==
    [k \in DOMAIN f \ {"format"} |->
        IF k = "items" THEN StripFormat(f.items)
        ELSE IF k = "properties"
        THEN [i \in 1..Len(f.properties) |->
                 [key |-> f.properties[i].key,
                  val |-> StripFormat(f.properties[i].val)]]
        ELSE IF k = "anyOf"
        THEN [i \in 1..Len(f.anyOf) |-> StripFormat(f.anyOf[i])]
        ELSE f[k]]

\* C14 as stated (same structure, same fragment): when a second call, on a
\* value of the same structure and the same JSON kinds of primitives as the
\* value of the call before, has returned, its fragment and the one before
\* are equal but for the format fields.
C14_SameKindsSameFragment ==
    (/\ pc = "done"
     /\ prev # NoCall
     /\ prev.fragment # NoFragment
     /\ SameKinds(prev.value, root))
        => StripFormat(result) = StripFormat(prev.fragment)

\* C14 amended (same structure and number tags, same fragment): when the
\* two values have the same structure and, at every position of a number,
\* both numbers are whole or both are fractional, the two fragments are
\* equal but for the format fields; and a second call on the same value
\* returns the fragment of the first.
C14_SameTagsSameFragment ==
    (/\ pc = "done"
     /\ prev # NoCall
     /\ prev.fragment # NoFragment)
        => /\ SameTags(prev.value, root) =>
                 StripFormat(result) = StripFormat(prev.fragment)
           /\ prev.value = root => result = prev.fragment

\* C14 witness: the second call, on a different array or object of the
\* same structure and number tags, has returned a fragment that differs
\* from the first in format fields alone.
C14_Witness ==
    /\ pc = "done"
    /\ prev # NoCall
    /\ IsComposite(root)
    /\ prev.value # root
    /\ SameTags(prev.value, root)
    /\ result # prev.fragment
    /\ StripFormat(result) = StripFormat(prev.fragment)

\* C15 (unreadable or malformed sample): when the sample file cannot be
\* read or its text is not valid JSON, the one step generateSchema can take
\* reports the error and exits the process with status 1: inferSchema is
\* not called, nothing is returned, and site-assets.json is neither loaded
\* nor written. In every run, generateSchema has returned only with a
\* fragment, and site-assets.json is touched only after that.
C15_FailureExitsWithStatus1 ==
    /\ proc.file # "ok" =>
          /\ pc \in {"idle", "exited"}
          /\ result = NoFragment
          /\ proc.siteAssets = "untouched"
          /\ pc = "idle" => ENABLED (ReadFails \/ ParseFails) /\ ~ENABLED Start
          /\ pc = "exited" =>
                /\ proc.exitStatus = "1"
                /\ proc.log = (CASE proc.file = "ENOENT" -> "fileNotFound"
                                 [] proc.file = "EACCES" -> "error"
                                 [] proc.file = "malformed" -> "invalidJSON")
    /\ pc = "done" => result # NoFragment /\ IsFragment(result)
    /\ proc.siteAssets # "untouched" =>
          proc.file = "ok" /\ result # NoFragment

\* C15 witness: the process has exited with status 1 on a sample whose text
\* is not valid JSON, before site-assets.json was loaded.
C15_Witness ==
    /\ pc = "exited"
    /\ proc.file = "malformed"
    /\ proc.exitStatus = "1"
    /\ proc.log = "invalidJSON"
    /\ proc.siteAssets = "untouched"

Typed(f) == "type" \in DOMAIN f /\ "anyOf" \notin DOMAIN f

\* No anyOf in f but as the items field of a fragment of f.
RECURSIVE AnyOfAsItemsOnly(_)
AnyOfAsItemsOnly(f) ==
    /\ "anyOf" \notin DOMAIN f
    /\ "items" \in DOMAIN f =>
          IF "anyOf" \in DOMAIN f.items
          THEN \A i \in DOMAIN f.items.anyOf :
                   AnyOfAsItemsOnly(f.items.anyOf[i])
          ELSE AnyOfAsItemsOnly(f.items)
    /\ "properties" \in DOMAIN f =>
          \A i \in DOMAIN f.properties :
              AnyOfAsItemsOnly(f.properties[i].val)

ObjectsInProgress ==
    {stack[k].id : k \in {j \in DOMAIN stack : stack[j].kind = "object"}}

\* C18 (visited = objects in progress): after every step of a top-level
\* call in progress, visited holds exactly the objects that have a frame on
\* the stack, so a call that returns leaves visited as it was when it was
\* entered with the same frames below it; a call that returns at once, the
\* cycle-guard hit included, leaves visited untouched; the return of the
\* call on an object removes that object alone; visited is empty when the
\* top-level call returns; and every top-level call, after one that
\* returned or threw, starts with an empty set.
C18_VisitedIsObjectsInProgress ==
    [][/\ pc' \in {"call", "ret", "exit"} => visited' = ObjectsInProgress'
       /\ (pc = "call" /\ pc' = "ret") => visited' = visited
       /\ (pc = "exit" /\ Top.kind = "object") =>
              Top.id \in visited /\ visited' = visited \ {Top.id}
       /\ (pc = "exit" /\ Top.kind = "array") => visited' = visited
       /\ (pc = "ret" /\ pc' = "done") => visited' = {}
       /\ (pc \in {"idle", "done", "overflow"} /\ pc' = "call") =>
              visited' = {}]_vars

\* C18 witness: a second top-level call has started with an empty set after
\* the call on an object that threw and left that object in visited.
C18_Witness ==
    /\ pc = "call"
    /\ stack = <<>>
    /\ visited = {}
    /\ prev # NoCall
    /\ prev.fragment = NoFragment
    /\ prev.value.kind = "object"

====
